---- MODULE Spec2Model ----
(***************************************************************************)
(* The $262 host object of boa_tester (src/boa_tester/src/exec/js262.rs):  *)
(* init, create_realm, detach_array_buffer, eval_script and gc, over a     *)
(* small heap of global objects, harness objects and array buffers.        *)
(***************************************************************************)
EXTENDS Naturals, Sequences, FiniteSets

\* ------------------------------------------------------------ bounds
MaxObjs == 6
MaxCalls == 2
MaxBufs == 1

ObjIds == 1..MaxObjs

\* ------------------------------------------------------------ JsValue
Val(t, v, o) == [t |-> t, v |-> v, o |-> o]
Undefined == Val("undefined", "", 0)
Null == Val("null", "", 0)
Num(s) == Val("num", s, 0)
Str(s) == Val("str", s, 0)
Obj(o) == Val("obj", "", o)

\* JsResult<JsValue>: Ok(value) or Err(native error of a kind, with a message).
\* A message is the sequence of its formatted pieces.
Ok(v) == [ok |-> TRUE, val |-> v, etype |-> "", msg |-> << >>]
Err(etype, msg) == [ok |-> FALSE, val |-> Undefined, etype |-> etype, msg |-> msg]

\* JsValue::same_value: NaN is the same as NaN, +0 is not the same as -0.
same_value(a, b) ==
    IF a.t # b.t THEN FALSE
    ELSE IF a.t = "num" THEN
        \/ (a.v = "NaN" /\ b.v = "NaN")
        \/ (a.v # "NaN" /\ b.v # "NaN" /\ a.v = b.v)
    ELSE IF a.t = "str" THEN a.v = b.v
    ELSE IF a.t = "obj" THEN a.o = b.o
    ELSE TRUE

\* Strict equality (===): NaN differs from NaN, +0 equals -0.
strict_equals(a, b) ==
    IF a.t # b.t THEN FALSE
    ELSE IF a.t = "num" THEN
        /\ a.v # "NaN"
        /\ b.v # "NaN"
        /\ (a.v = b.v \/ {a.v, b.v} = {"+0", "-0"})
    ELSE IF a.t = "str" THEN a.v = b.v
    ELSE IF a.t = "obj" THEN a.o = b.o
    ELSE TRUE

\* args.get(i) is present
has_arg(args, i) == Len(args) > i
\* JsArgs::get_or_undefined
get_or_undefined(args, i) == IF has_arg(args, i) THEN args[i + 1] ELSE Undefined

\* ------------------------------------------------------------ properties
Keys == {"$262", "x"}

Attr(w, e, c) == [writable |-> w, enumerable |-> e, configurable |-> c]
\* Attribute::empty(): no flag set.
AttributeAll == Attr(TRUE, TRUE, TRUE)
AttributeEmpty == Attr(FALSE, FALSE, FALSE)

Prop(v, a) == [present |-> TRUE, value |-> v, attr |-> a]
NoProp == [present |-> FALSE, value |-> Undefined, attr |-> AttributeEmpty]
NoProps == [k \in Keys |-> NoProp]

NoBuffer == [data |-> "absent", len |-> 0, key |-> Undefined]

VARIABLES
    nextId,     \* the next object id the allocator hands out
    live,       \* the allocated objects that have not been collected
    kind,       \* per object: "none", "global", "harness" or "buffer"
    buffers,    \* per array buffer: array_buffer_data, byte length, detach key
    hglobal,    \* per harness object: its "global" property
    props,      \* per global object: its own properties
    roots,      \* the objects the running script holds strongly
    last,       \* the host call made by the last step, with its completion
    again,      \* history: the last step repeated the call of the step before it,
                \* which had completed normally
    calls       \* the number of host calls made

vars == <<nextId, live, kind, buffers, hglobal, props, roots, last, again, calls>>

\* The global object of the Context the embedding runs the test script in.
RootGlobal == 1

NoCall == [op |-> "none", this |-> 0, args |-> << >>, res |-> Ok(Undefined),
           parses |-> 0, evals |-> 0]
Call(op, this, args, res, np, ne) ==
    [op |-> op, this |-> this, args |-> args, res |-> res, parses |-> np, evals |-> ne]

\* ------------------------------------------------------------ the engine
\* The object store a Context allocates in: the allocator, the live set and the
\* objects' internal slots.
World(n, l, k, hg, p) == [nextId |-> n, live |-> l, kind |-> k, hglobal |-> hg, props |-> p]

alloc(w, knd) ==
    [w EXCEPT !.nextId = @ + 1, !.live = @ \union {w.nextId}, !.kind[w.nextId] = knd]

\* Context::default(): a new execution context with a new global object. A
\* Context is named by its global object.
Context_default(w) ==
    LET g == w.nextId
    IN [w |-> [alloc(w, "global") EXCEPT !.props[g] = NoProps], ctx |-> g]

\* Context::register_global_property(key, value, attribute)
register_global_property(w, ctx, key, value, attr) ==
    [w EXCEPT !.props[ctx][key] = Prop(value, attr)]

\* An assignment `key = value` evaluated as sloppy script code: a non-writable
\* property silently keeps its value.
SetGlobal(pr, g, key, value) ==
    IF pr[g][key].present
    THEN IF pr[g][key].attr.writable
         THEN [pr EXCEPT ![g][key].value = value]
         ELSE pr
    ELSE [pr EXCEPT ![g][key] = Prop(value, AttributeAll)]

\* `delete key` evaluated as sloppy script code: a non-configurable property stays.
CanDelete(pr, g, key) == ~pr[g][key].present \/ pr[g][key].attr.configurable
DeleteGlobal(pr, g, key) ==
    IF CanDelete(pr, g, key) THEN [pr EXCEPT ![g][key] = NoProp] ELSE pr

Bool(b) == Val("bool", IF b THEN "true" ELSE "false", 0)

\* A JsString holding one unpaired surrogate inside a string literal, and what
\* JsString::to_std_string_escaped makes of it: the surrogate becomes the text
\* of its escape. Well-formed strings convert to themselves.
LoneText == "'<D800>'"
EscapedText == "'\\uD800'"
to_std_string_escaped(s) == IF s = LoneText THEN EscapedText ELSE s

\* The script texts the test script passes to evalScript.
ScriptTexts == {"1+1", "{", "x = 1", "y", "$262 = 0", "delete $262", LoneText}
\* The sources the parser accepts.
Parsable == {"1+1", "x = 1", "y", "$262 = 0", "delete $262", EscapedText, "42"}

\* Context::parse(source): Ok, or Err with the parser's diagnostic.
parse(src) ==
    IF src \in Parsable THEN [ok |-> TRUE, diag |-> ""]
    ELSE [ok |-> FALSE, diag |-> "unexpected token"]

\* Context::eval(source) in the context whose global object is g: parses the
\* source itself, then runs it.
eval(src, g, pr) ==
    IF ~parse(src).ok
    THEN [res |-> Err("SyntaxError", <<parse(src).diag>>), props |-> pr]
    ELSE IF src = "1+1" THEN [res |-> Ok(Num("2")), props |-> pr]
    ELSE IF src = "42" THEN [res |-> Ok(Num("42")), props |-> pr]
    ELSE IF src = "x = 1"
        THEN [res |-> Ok(Num("1")), props |-> SetGlobal(pr, g, "x", Num("1"))]
    ELSE IF src = "y"
        THEN [res |-> Err("ReferenceError", <<"y is not defined">>), props |-> pr]
    ELSE IF src = "$262 = 0"
        THEN [res |-> Ok(Num("+0")), props |-> SetGlobal(pr, g, "$262", Num("+0"))]
    ELSE IF src = "delete $262"
        THEN [res |-> Ok(Bool(CanDelete(pr, g, "$262"))),
              props |-> DeleteGlobal(pr, g, "$262")]
    ELSE [res |-> Ok(Str("<D800>")), props |-> pr]

\* The objects an object refers to strongly.
Edges(knd, hg, pr, o) ==
    IF knd[o] = "harness" THEN {hg[o]}
    ELSE IF knd[o] = "global"
        THEN {pr[o][k].value.o : k \in {j \in Keys : pr[o][j].present /\ pr[o][j].value.t = "obj"}}
    ELSE {}

RECURSIVE ReachFrom(_, _, _, _, _)
ReachFrom(knd, hg, pr, S, n) ==
    IF n = 0 THEN S
    ELSE ReachFrom(knd, hg, pr, S \union UNION {Edges(knd, hg, pr, o) : o \in S}, n - 1)

\* The objects strongly reachable from the root set rs.
Reach(knd, hg, pr, rs) == ReachFrom(knd, hg, pr, rs, MaxObjs)

\* boa_gc::force_collect(): a full synchronous collection; what is not strongly
\* reachable is reclaimed.
force_collect(lv, knd, hg, pr, rs) == lv \intersect Reach(knd, hg, pr, rs)

\* What a WeakRef to o reports.
Deref(lv, o) == IF o \in lv THEN Obj(o) ELSE Undefined

\* ------------------------------------------------------------ js262.rs
\* The attributes init registers "$262" with.
Js262AttributeWritable == AttributeAll
Js262Attribute == AttributeEmpty

\* init(context): builds the harness object, with the context's global object as
\* its "global" property, registers it as "$262" and returns it.
init(w, ctx) ==
    LET obj == w.nextId
        w1 == [alloc(w, "harness") EXCEPT !.hglobal[obj] = ctx]
    IN [w |-> register_global_property(w1, ctx, "$262", Obj(obj), Js262Attribute),
        obj |-> obj]

\* A create_realm that installs the harness in the context it was called with.
create_realm_in_caller(w, this, args, context) ==
    LET r == init(w, context)
    IN [w |-> r.w, res |-> Ok(Obj(r.obj))]

\* create_realm(_this, _, _context): a new Context of its own, init on it, the
\* new harness object returned. The Context is a local: it is dropped on return
\* and its objects live on only as far as they are referred to.
create_realm(w, this, args, context) ==
    LET c == Context_default(w)
        r == init(c.w, c.ctx)
    IN [w |-> r.w, res |-> Ok(Obj(r.obj))]

NotArrayBufferMsg == <<"The provided object was not an ArrayBuffer">>
DifferentKeyMsg == <<"Cannot detach array buffer with different key">>
type_err == Err("TypeError", NotArrayBufferMsg)

\* Any object passes for an array buffer.
is_object_arg(knd, args) == has_arg(args, 0) /\ args[1].t = "obj"

\* args.get(0).and_then(as_object), then as_array_buffer_mut(): the first
\* argument is there, is an object, and has array-buffer internals.
is_array_buffer_arg(knd, args) ==
    /\ has_arg(args, 0)
    /\ args[1].t = "obj"
    /\ knd[args[1].o] = "buffer"

\* The key check by strict equality instead of SameValue.
key_matches_strict(stored, key) == strict_equals(stored, key)

\* Step 3: SameValue(arrayBuffer.[[ArrayBufferDetachKey]], key)
key_matches(stored, key) == same_value(stored, key)

\* Detaching that keeps the byte length.
detached_keeps_length(b) == [b EXCEPT !.data = "absent"]
\* Detaching that also clears the detach key.
detached_clears_key(b) == [b EXCEPT !.data = "absent", !.len = 0, !.key = Null]

\* Steps 4 and 5: the data block is dropped and the byte length set to 0.
detached(b) == [b EXCEPT !.data = "absent", !.len = 0]

\* detach_array_buffer(_this, args, _)
detach_array_buffer(knd, bufs, args) ==
    IF ~is_array_buffer_arg(knd, args)
    THEN [res |-> type_err, buffers |-> bufs]
    ELSE LET o == args[1].o
             key == get_or_undefined(args, 1)
         IN IF ~key_matches(bufs[o].key, key)
            THEN [res |-> Err("TypeError", DifferentKeyMsg), buffers |-> bufs]
            ELSE [res |-> Ok(Null), buffers |-> [bufs EXCEPT ![o] = detached(bufs[o])]]

SyntaxErrorPrefix == "Uncaught Syntax Error: "

\* A first argument converted to a string whatever it is.
as_string_coercing(args) ==
    IF ~has_arg(args, 0) THEN [some |-> FALSE, s |-> ""]
    ELSE IF args[1].t = "obj" THEN [some |-> TRUE, s |-> "[object Object]"]
    ELSE [some |-> TRUE, s |-> args[1].v]

\* args.get(0).and_then(JsValue::as_string)
as_string(args) ==
    IF has_arg(args, 0) /\ args[1].t = "str"
    THEN [some |-> TRUE, s |-> args[1].v]
    ELSE [some |-> FALSE, s |-> ""]

\* An eval_script that hands the text to eval without parsing it first.
eval_text_unchecked(src, context, pr) ==
    LET e == eval(src, context, pr)
    IN [res |-> e.res, props |-> e.props, parses |-> 1, evals |-> 1]

\* The closure of eval_script: parse; on an error a TypeError carrying the
\* diagnostic, otherwise eval (which parses the source a second time).
eval_text(src, context, pr) ==
    IF ~parse(src).ok
    THEN [res |-> Err("TypeError", <<SyntaxErrorPrefix, parse(src).diag>>),
          props |-> pr, parses |-> 1, evals |-> 0]
    ELSE LET e == eval(src, context, pr)
         IN [res |-> e.res, props |-> e.props, parses |-> 2, evals |-> 1]

\* eval_script(_this, args, context)
eval_script(args, context, pr) ==
    IF ~as_string(args).some
    THEN [res |-> Ok(Undefined), props |-> pr, parses |-> 0, evals |-> 0]
    ELSE eval_text(to_std_string_escaped(as_string(args).s), context, pr)

\* A gc that returns without collecting.
gc_noop(lv, knd, hg, pr, rs) == [res |-> Ok(Undefined), live |-> lv]

\* gc(_this, _, _context)
gc(lv, knd, hg, pr, rs) ==
    [res |-> Ok(Undefined), live |-> force_collect(lv, knd, hg, pr, rs)]

\* ------------------------------------------------------------ the state machine
EmptyWorld ==
    World(1, {}, [o \in ObjIds |-> "none"], [o \in ObjIds |-> 0], [o \in ObjIds |-> NoProps])

\* The embedding creates its Context and calls init on it once, at startup.
Startup == init(Context_default(EmptyWorld).w, Context_default(EmptyWorld).ctx).w

Init ==
    /\ nextId = Startup.nextId
    /\ live = Startup.live
    /\ kind = Startup.kind
    /\ hglobal = Startup.hglobal
    /\ props = Startup.props
    /\ buffers = [o \in ObjIds |-> NoBuffer]
    /\ roots = {}
    /\ last = NoCall
    /\ again = FALSE
    /\ calls = 0

\* The Context the engine hands a native function: the one running the script
\* that makes the call.
LiveContext == RootGlobal

\* What the running script and its Context hold on to.
RootSet == roots \union {LiveContext}
Reachable == Reach(kind, hglobal, props, RootSet)

Harnesses == {o \in Reachable : kind[o] = "harness"}
\* The harness object the running script finds as $262 on its own global object.
OwnHarness == props[LiveContext]["$262"].value.o

\* The detach keys the embedding gives its buffers, and the keys the script passes.
BufKeys == {Undefined, Num("+0"), Num("NaN")}
KeyVals == {Undefined, Num("+0"), Num("-0"), Num("NaN")}
Lens == {8}
Buffers == {o \in ObjIds : kind[o] = "buffer"}
FirstArgs == {Num("42")} \union {Obj(o) : o \in Reachable}
DetachArgs ==
    {<< >>} \union {<<a>> : a \in FirstArgs} \union {<<a, k>> : a \in FirstArgs, k \in KeyVals}
EvalArgs ==
    {<< >>, <<Num("42")>>} \union {<<Obj(o)>> : o \in Harnesses}
        \union {<<Str(t)>> : t \in ScriptTexts}
AnyArgs == {<< >>, <<Num("42")>>}

Repeats(before, now) ==
    before.op = now.op /\ before.this = now.this /\ before.args = now.args /\ before.res.ok

\* The test script creates an array buffer and keeps a reference to it.
NewArrayBuffer(len, key) ==
    /\ nextId <= MaxObjs
    /\ Cardinality(Buffers) < MaxBufs
    /\ nextId' = nextId + 1
    /\ live' = live \union {nextId}
    /\ kind' = [kind EXCEPT ![nextId] = "buffer"]
    /\ buffers' = [buffers EXCEPT ![nextId] = [data |-> "present", len |-> len, key |-> key]]
    /\ roots' = roots \union {nextId}
    /\ last' = NoCall
    /\ again' = FALSE
    /\ UNCHANGED <<hglobal, props, calls>>

\* The test script lets go of a reference it held.
DropRef(o) ==
    /\ o \in roots
    /\ roots' = roots \ {o}
    /\ last' = NoCall
    /\ again' = FALSE
    /\ UNCHANGED <<nextId, live, kind, buffers, hglobal, props, calls>>

CallCreateRealm(this, args) ==
    /\ calls < MaxCalls
    /\ nextId + 1 <= MaxObjs
    /\ LET r == create_realm(World(nextId, live, kind, hglobal, props), this, args, LiveContext)
       IN /\ nextId' = r.w.nextId
          /\ live' = r.w.live
          /\ kind' = r.w.kind
          /\ hglobal' = r.w.hglobal
          /\ props' = r.w.props
          /\ roots' = roots \union {r.res.val.o}
          /\ last' = Call("createRealm", this, args, r.res, 0, 0)
    /\ again' = Repeats(last, last')
    /\ calls' = calls + 1
    /\ UNCHANGED buffers

CallDetachArrayBuffer(this, args) ==
    /\ calls < MaxCalls
    /\ LET r == detach_array_buffer(kind, buffers, args)
       IN /\ buffers' = r.buffers
          /\ last' = Call("detachArrayBuffer", this, args, r.res, 0, 0)
    /\ again' = Repeats(last, last')
    /\ calls' = calls + 1
    /\ UNCHANGED <<nextId, live, kind, hglobal, props, roots>>

CallEvalScript(this, args) ==
    /\ calls < MaxCalls
    /\ LET r == eval_script(args, LiveContext, props)
       IN /\ props' = r.props
          /\ last' = Call("evalScript", this, args, r.res, r.parses, r.evals)
    /\ again' = Repeats(last, last')
    /\ calls' = calls + 1
    /\ UNCHANGED <<nextId, live, kind, buffers, hglobal, roots>>

CallGc(this, args) ==
    /\ calls < MaxCalls
    /\ LET r == gc(live, kind, hglobal, props, RootSet)
       IN /\ live' = r.live
          /\ last' = Call("gc", this, args, r.res, 0, 0)
    /\ again' = Repeats(last, last')
    /\ calls' = calls + 1
    /\ UNCHANGED <<nextId, kind, buffers, hglobal, props, roots>>

Next ==
    \/ \E len \in Lens, key \in BufKeys : NewArrayBuffer(len, key)
    \/ \E o \in roots : DropRef(o)
    \/ \E this \in Harnesses, args \in AnyArgs : CallCreateRealm(this, args)
    \/ \E args \in DetachArgs : CallDetachArrayBuffer(OwnHarness, args)
    \/ \E this \in Harnesses, args \in EvalArgs : CallEvalScript(this, args)
    \/ \E args \in AnyArgs : CallGc(OwnHarness, args)

Spec == Init /\ [][Next]_vars

\* ------------------------------------------------------------ claims
\* The step is a call of the host operation op.
IsCallOf(op) == calls' = calls + 1 /\ last'.op = op
\* The first argument of the call is an array buffer.
TargetsBuffer(args) == Len(args) >= 1 /\ args[1].t = "obj" /\ kind[args[1].o] = "buffer"
\* The key of the call: an omitted key is the undefined value.
KeyArg(args) == IF Len(args) >= 2 THEN args[2] ELSE Undefined

\* C1: whenever detachArrayBuffer(b, k) is called on an array buffer b whose
\* detach key is the same value as k (an omitted k being undefined), the call
\* returns null and afterwards b has no backing store and byte length 0.
C1_DetachSucceeds ==
    [][(/\ IsCallOf("detachArrayBuffer")
        /\ TargetsBuffer(last'.args)
        /\ same_value(buffers[last'.args[1].o].key, KeyArg(last'.args)))
       => (/\ last'.res = Ok(Null)
           /\ buffers'[last'.args[1].o].data = "absent"
           /\ buffers'[last'.args[1].o].len = 0)]_vars

\* C1 witness: a buffer with a backing store, 8 bytes long, whose detach key is
\* NaN has been detached with the key NaN.
C1_Witness ==
    /\ last.op = "detachArrayBuffer"
    /\ Len(last.args) = 2
    /\ last.args[2] = Num("NaN")
    /\ TargetsBuffer(last.args)
    /\ ~again
    /\ last.res = Ok(Null)
    /\ buffers[last.args[1].o] = [data |-> "absent", len |-> 0, key |-> Num("NaN")]

\* What C2 says of a call with a key that is not the buffer's, the message given.
DifferentKeyRejected(message) ==
    (/\ IsCallOf("detachArrayBuffer")
     /\ TargetsBuffer(last'.args)
     /\ ~same_value(buffers[last'.args[1].o].key, KeyArg(last'.args)))
    => (/\ last'.res = Err("TypeError", <<message>>)
        /\ buffers' = buffers)

\* C2 as stated: a call with a key that is not the same value as the buffer's
\* detach key fails with the type error "cannot detach array buffer with
\* different key" and leaves the buffer as it was.
C2_Original ==
    [][DifferentKeyRejected("cannot detach array buffer with different key")]_vars

\* C2 as amended: the same, the message being "Cannot detach array buffer with
\* different key", with a capital C.
C2_DifferentKeyRejected ==
    [][DifferentKeyRejected("Cannot detach array buffer with different key")]_vars

\* C2 witness: a buffer whose detach key is +0 was asked to detach with the key
\* -0, was refused and still has its backing store and its 8 bytes.
C2_Witness ==
    /\ last.op = "detachArrayBuffer"
    /\ Len(last.args) = 2
    /\ last.args[2] = Num("-0")
    /\ TargetsBuffer(last.args)
    /\ ~last.res.ok
    /\ buffers[last.args[1].o] = [data |-> "present", len |-> 8, key |-> Num("+0")]

\* What C3 says of a call whose first argument is no array buffer, the message given.
NotABufferRejected(message) ==
    (IsCallOf("detachArrayBuffer") /\ ~TargetsBuffer(last'.args))
    => (/\ last'.res = Err("TypeError", <<message>>)
        /\ buffers' = buffers)

\* C3 as stated: a call whose first argument is missing, is no object or is an
\* object without array-buffer internals fails with the type error "the provided
\* object was not an ArrayBuffer" whatever the key, and modifies no array buffer.
C3_Original ==
    [][NotABufferRejected("the provided object was not an ArrayBuffer")]_vars

\* C3 as amended: the same, the message being "The provided object was not an
\* ArrayBuffer", with a capital T.
C3_NotABufferRejected ==
    [][NotABufferRejected("The provided object was not an ArrayBuffer")]_vars

\* C3 witness: the harness object, which has no array-buffer internals, was
\* passed with the key undefined, the key such an object's empty slot would
\* match, while a buffer with a backing store exists; the call was refused.
C3_Witness ==
    /\ last.op = "detachArrayBuffer"
    /\ last.args = <<Obj(OwnHarness), Undefined>>
    /\ ~last.res.ok
    /\ \E b \in Buffers : buffers[b].data = "present"

\* C4: when a detachArrayBuffer(b, k) that succeeded is repeated at once, the
\* second call returns null too, and leaves the buffer as the first call left it:
\* no backing store, byte length 0, the detach key it had.
C4_DetachIdempotent ==
    [][(/\ last.op = "detachArrayBuffer"
        /\ last.res.ok
        /\ IsCallOf("detachArrayBuffer")
        /\ last'.args = last.args)
       => (/\ last'.res = Ok(Null)
           /\ buffers' = buffers
           /\ buffers'[last.args[1].o].data = "absent"
           /\ buffers'[last.args[1].o].len = 0
           /\ same_value(buffers'[last.args[1].o].key, KeyArg(last.args)))]_vars

\* C4 witness: a detach with the omitted key has been made twice in a row.
C4_Witness ==
    /\ again
    /\ last.op = "detachArrayBuffer"
    /\ Len(last.args) = 1
    /\ last.res = Ok(Null)
    /\ buffers[last.args[1].o] = [data |-> "absent", len |-> 0, key |-> Undefined]

\* The call's first argument is a string.
HasText(args) == Len(args) >= 1 /\ args[1].t = "str"
\* The source the call parses and evaluates.
SourceOf(args) == to_std_string_escaped(args[1].v)

C6_NonTextNoOp ==
    [][(IsCallOf("evalScript") /\ ~HasText(last'.args))
       => (/\ last'.res = Ok(Undefined)
           /\ last'.parses = 0
           /\ last'.evals = 0
           /\ UNCHANGED <<nextId, live, kind, buffers, hglobal, props, roots>>)]_vars

\* C6 witness: evalScript(42) has returned undefined.
C6_Witness ==
    /\ last.op = "evalScript"
    /\ last.args = <<Num("42")>>
    /\ last.res = Ok(Undefined)

\* The harness object init returned to the embedding at startup.
StartupHarness ==
    init(Context_default(EmptyWorld).w, Context_default(EmptyWorld).ctx).obj

\* The global object g holds the harness object h as "$262", non-writable,
\* non-enumerable and non-configurable.
Holds262(pr, g, h) == pr[g]["$262"] = Prop(Obj(h), Attr(FALSE, FALSE, FALSE))

\* C7: every realm's global object holds, as "$262" and with no attribute set, a
\* harness object whose global is that global object: the embedding's realm the
\* one init returned at startup, a realm made by createRealm the one that call
\* returned; and no step changes the binding of an existing global object.
C7_BindingKept ==
    /\ [](/\ Holds262(props, RootGlobal, StartupHarness)
          /\ \A g \in ObjIds : kind[g] = "global" =>
                \E h \in ObjIds :
                    kind[h] = "harness" /\ hglobal[h] = g /\ Holds262(props, g, h))
    /\ [][/\ \A g \in ObjIds : kind[g] = "global" => props'[g]["$262"] = props[g]["$262"]
          /\ IsCallOf("createRealm") =>
                Holds262(props', hglobal'[last'.res.val.o], last'.res.val.o)]_vars

\* C7 witness: a script run by the second host call tried to delete $262 and was
\* told the property stays.
C7_Witness ==
    /\ calls = 2
    /\ last.op = "evalScript"
    /\ last.args = <<Str("delete $262")>>
    /\ last.res = Ok(Bool(FALSE))

\* C8: every createRealm call returns a harness object that did not exist
\* before, whose global is a global object that did not exist before either and
\* holds that harness as "$262"; the objects that existed, the calling realm's
\* global object and harness among them, are as they were.
C8_CreateRealmFresh ==
    [][IsCallOf("createRealm")
       => (/\ last'.res.ok
           /\ last'.res.val.t = "obj"
           /\ kind[last'.res.val.o] = "none"
           /\ kind'[last'.res.val.o] = "harness"
           /\ LET g == hglobal'[last'.res.val.o]
              IN /\ kind[g] = "none"
                 /\ kind'[g] = "global"
                 /\ g # LiveContext
                 /\ \A o \in ObjIds : kind[o] = "global" => g # o
                 /\ props'[g]["$262"].value = last'.res.val
           /\ \A o \in ObjIds : kind[o] # "none" =>
                /\ kind'[o] = kind[o]
                /\ props'[o] = props[o]
                /\ hglobal'[o] = hglobal[o]
                /\ buffers'[o] = buffers[o])]_vars

\* C8 witness: createRealm was called, with an argument, through the harness of
\* a realm that createRealm had made.
C8_Witness ==
    /\ last.op = "createRealm"
    /\ last.this # StartupHarness
    /\ last.args = <<Num("42")>>
    /\ last.res.ok
    /\ hglobal[last.res.val.o] \notin {RootGlobal, hglobal[last.this]}

\* C9: when evalScript is called through the harness of another realm than the
\* running one, with a text that parses, the text is evaluated in that harness's
\* realm: its global object is as the evaluation there leaves it, and the running
\* realm's global object is as it was.
C9_ScopedToNewRealm ==
    [][(/\ IsCallOf("evalScript")
        /\ hglobal[last'.this] # LiveContext
        /\ HasText(last'.args)
        /\ parse(SourceOf(last'.args)).ok)
       => (/\ props'[hglobal[last'.this]] =
                eval(SourceOf(last'.args), hglobal[last'.this], props).props[hglobal[last'.this]]
           /\ props'[LiveContext] = props[LiveContext])]_vars

====
